---- MODULE Spec2Model ----
(***************************************************************************)
(* The sandbox lifecycle engine (SandboxManager) with its built-in         *)
(* isolation modules: a supervising parent that resolves the module order, *)
(* initializes the modules, forks, prepares and reaps the child, and the   *)
(* forked child that applies the modules and runs the command.             *)
(***************************************************************************)
EXTENDS Integers, Sequences, FiniteSets, TLC

VARIABLES
    config,           \* SandboxManager::config_ (snapshot of the fields used)
    json_,            \* ConfigParser::json_ : the JSON document given to the parser
    parsed,           \* what ConfigParser::parse() did: returned config_, or threw
    logger,           \* the Logger singleton and the thread that initializes it
    modules_,         \* SandboxManager::modules_ : names of the registered modules
    declared,         \* what getDependencies() of each module returns
    state_,           \* SandboxManager::state_
    executionOrder_,  \* SandboxManager::executionOrder_
    childPid_,        \* SandboxManager::childPid_
    pc,               \* position of the thread inside run()
    idx,              \* loop index of the phase run() is in
    result,           \* the SandboxResult being built / last returned
    returned,         \* TRUE once the last started run() has returned
    runs,             \* number of run() calls started
    moduleState,      \* IModule::state_ of every module (parent's copy)
    seccomp,          \* Seccomp::enabled_ and Seccomp::filterBlob_ (parent's copy)
    cgroupDir,        \* the cgroup directory exists on the host
    cgroupProcs,      \* pids written to the cgroup's cgroup.procs
    cgroupWrites,     \* Syscall::setCgroupValue calls made during the current run
    activeMounts_,    \* Mounts::activeMounts_ (parent's copy)
    pipeBuf,          \* bytes written to pipeFd_[1] and not yet read from pipeFd_[0]
    parentLog,        \* hooks invoked by the parent during the current run
    child,            \* the forked child process
    nextPid,          \* pid the next fork() returns
    signals,          \* kill() calls made during the current run
    stopPc,           \* position of the thread inside stop()
    stopLeft,         \* remaining iterations of stop()'s polling loop
    stops             \* number of stop() calls started

vars == <<config, json_, parsed, logger, declared, cgroupWrites, activeMounts_, pipeBuf, modules_, state_, executionOrder_, childPid_, pc, idx, result,
          returned, runs, moduleState, seccomp, cgroupDir, cgroupProcs,
          parentLog, child, nextPid, signals, stopPc, stopLeft, stops>>

stopVars == <<stopPc, stopLeft, stops>>

----------------------------------------------------------------------------
(* Bounds of the model *)

\* run() and stop() calls made on the SandboxManager, together
MaxCalls == 3

\* bytes a pipe holds before a write to it blocks (65536 on Linux, scaled)
PipeCapacity == 8

\* messages logged by the other threads
MaxLogLines == 2

\* longest configured capability list
MaxCapNames == 65


----------------------------------------------------------------------------
(* Names and constants of the program *)

SandboxStates == {"CREATED", "INITIALIZING", "PREPARING", "RUNNING",
                  "STOPPING", "STOPPED", "ERROR"}

ModuleStates == {"UNINITIALIZED", "INITIALIZED", "RUNNING", "STOPPING",
                 "STOPPED", "ERROR"}

SIGKILL == 9

SIGTERM == 15

\* the timeoutMs values stop() is called with
TimeoutsMs == {0, 150}

DefaultModules == <<"namespaces", "cgroups", "seccomp", "caps", "rootfs",
                    "mounts", "ai-agent">>

CustomModules == {"my-module"}

\* further user-written modules, for the dependency resolution taken alone
PluginModules == {"plugin-a", "plugin-b", "plugin-c"}

\* std::map<std::string, ...> iterates its keys in std::less<std::string> order.
NamesSorted == <<"ai-agent", "caps", "cgroups", "mounts", "my-module",
                 "namespaces", "plugin-a", "plugin-b", "plugin-c", "rootfs",
                 "seccomp">>

Range(s) == {s[i] : i \in 1..Len(s)}

\* the modules a SandboxManager of the command-line program can hold
ModuleNames == Range(DefaultModules) \cup CustomModules

\* getDependencies() of each module
getDependencies(m) == IF m = "mounts" THEN <<"rootfs">> ELSE <<>>

----------------------------------------------------------------------------
(* Configurations *)

\* ConfigParser::createDefaultConfig
DefaultConfig ==
    [ namespaces     |-> {"pid", "net", "ipc", "uts", "mount", "user"},
      capabilities   |-> <<>>,
      hostname       |-> "sandbox-container",
      uid_map        |-> [container |-> 1000, host |-> 0, count |-> 1],
      gid_map        |-> [container |-> 1000, host |-> 0, count |-> 1],
      memory_mb      |-> 512,
      cpu_quota_percent |-> 50,
      max_pids       |-> 100,
      enable_swap    |-> FALSE,
      seccomp_policy |-> "default",
      seccomp_profile_path |-> "",
      command        |-> <<"/bin/bash">>,
      bind_mounts    |-> << [target |-> "/tmp", read_only |-> FALSE] >> ]

\* the configurations the model is run with
Configs ==
    { DefaultConfig,
      [DefaultConfig EXCEPT !.capabilities = <<"CAP_SYS_ADMIN">>,
                            !.bind_mounts =
                               << [target |-> "/tmp", read_only |-> FALSE],
                                  [target |-> "/data", read_only |-> TRUE] >>],
      [DefaultConfig EXCEPT !.capabilities = <<"CAP_SYS_ADMIN", "CAP_KILL">>,
                            !.seccomp_policy = "",
                            !.namespaces = {}, !.bind_mounts = <<>>] }

----------------------------------------------------------------------------
(* SandboxManager::resolveDependencies *)

\* the names of S in the order main() registers them
RegistrationOrder(S) ==
    SelectSeq(DefaultModules \o <<"my-module">>, LAMBDA n : n \in S)

\* The names of S in the iteration order of modules_
MapOrder(S) ==
    LET RECURSIVE go(_, _)
        go(i, acc) == IF i > Len(NamesSorted) THEN acc
                      ELSE go(i + 1, IF NamesSorted[i] \in S
                                     THEN Append(acc, NamesSorted[i]) ELSE acc)
    IN go(1, <<>>)

RECURSIVE dfs(_, _, _)
RECURSIVE dfsDeps(_, _, _)

\* a dfs that appends a module before it visits the module's dependencies
dfsPreOrder(name, st, registered) ==
    IF name \in st.temp \/ name \in st.visited \/ name \notin registered
    THEN st
    ELSE LET s2 == dfsDeps(declared[name],
                           [st EXCEPT !.temp = @ \cup {name},
                                      !.order = Append(@, name)],
                           registered)
         IN [s2 EXCEPT !.visited = @ \cup {name}, !.temp = @ \ {name}]

\* the calls of dfs in progress from the one of name on: the cycle that
\* "Circular dependency detected: name" is about
CycleAt(name, stack) ==
    LET from == CHOOSE i \in 1..Len(stack) : stack[i] = name
    IN {stack[i] : i \in from..Len(stack)}

\* SANDBOX_WARNING("Circular dependency detected: " + name); return
CycleDetected(name, st) ==
    [st EXCEPT !.warned = Append(@, [name  |-> name,
                                     cycle |-> CycleAt(name, st.stack)])]

\* a dfs that also emits the module at which it detects the cycle
dfsEmitsAtCycle(name, st, registered) ==
    IF name \in st.temp
    THEN [CycleDetected(name, st) EXCEPT !.order = Append(@, name)]
    ELSE IF name \in st.visited \/ name \notin registered THEN st
    ELSE LET s2 == dfsDeps(declared[name],
                           [st EXCEPT !.temp = @ \cup {name},
                                      !.stack = Append(@, name)],
                           registered)
         IN [s2 EXCEPT !.visited = @ \cup {name}, !.temp = @ \ {name},
                       !.stack = SubSeq(@, 1, Len(@) - 1),
                       !.order = Append(@, name)]

\* the dfs lambda: st = [visited, temp, order] and, of the run of the
\* lambda, stack: the names of the calls in progress, warned: the cycle
\* warnings logged
dfs(name, st, registered) ==
    IF name \in st.temp THEN CycleDetected(name, st)
    ELSE IF name \in st.visited THEN st
    ELSE IF name \notin registered THEN st
    ELSE LET s1 == [st EXCEPT !.temp = @ \cup {name},
                              !.stack = Append(@, name)]
             s2 == dfsDeps(declared[name], s1, registered)
         IN [s2 EXCEPT !.visited = @ \cup {name},
                       !.temp    = @ \ {name},
                       !.stack   = SubSeq(@, 1, Len(@) - 1),
                       !.order   = Append(@, name)]

dfsDeps(deps, st, registered) ==
    IF deps = <<>> THEN st
    ELSE dfsDeps(Tail(deps), dfs(Head(deps), st, registered), registered)

\* the loop of resolveDependencies over modules_, with what it leaves
resolveLoop(registered) ==
    LET RECURSIVE loop(_, _)
        loop(names, st) ==
            IF names = <<>> THEN st
            ELSE loop(Tail(names),
                      IF Head(names) \in st.visited THEN st
                      ELSE dfs(Head(names), st, registered))
    IN loop(MapOrder(registered),
            [visited |-> {}, temp |-> {}, order |-> <<>>,
             stack |-> <<>>, warned |-> <<>>])

resolveDependencies(registered) == resolveLoop(registered).order

----------------------------------------------------------------------------
(* The hooks of the modules, parent side.  An outcome names what the hook  *)
(* met in the environment; the hook's return value and effects follow.     *)

\* a Syscall::setCgroupValue call and whether the write succeeded
CgroupWrite(file, value, ok) == [file |-> file, value |-> value, ok |-> ok]

\* Cgroups::setMemoryLimits: static_cast<long long>(memory_mb) * 1024 * 1024
memoryBytes(cfg) == cfg.memory_mb * 1024 * 1024

\* memoryBytes * 8 / 10 in 64 bits; the product is taken in two parts here
\* to stay within the 32-bit integers of TLC
memoryHigh(cfg) ==
    LET b == memoryBytes(cfg) IN 8 * (b \div 10) + (8 * (b % 10)) \div 10

\* x * k on the 32-bit int of the build for 0 <= x, 0 < k < 65536: the 16-bit
\* halves of the product, ph holding everything from bit 16 up
MulHalves(x, k) ==
    LET pl == (x % 65536) * k
    IN [ph |-> (x \div 65536) * k + pl \div 65536, pl |-> pl % 65536]

\* the product does not fit the int
MulOverflows(x, k) == MulHalves(x, k).ph >= 32768

\* the product reduced to 32 bits, two's complement
MulWrapped(x, k) ==
    LET p == MulHalves(x, k)
        h == p.ph % 65536
    IN (IF h >= 32768 THEN h - 65536 ELSE h) * 65536 + p.pl

\* Cgroups::setCpuLimits: long long quota = cpu_quota_percent * 1000, an int
\* multiplication.  Its overflow is undefined: the build either wraps the
\* product to 32 bits or carries it out in 64 bits (decimal: three zeros
\* appended).
quota(cfg) ==
    LET x == cfg.cpu_quota_percent IN
    IF ~MulOverflows(x, 1000) THEN {ToString(x * 1000)}
    ELSE {ToString(MulWrapped(x, 1000)), ToString(x) \o "000"}

\* Cgroups::createCgroup after mkdirRecursive succeeded: the setCgroupValue
\* calls in order, each with fatal = its failure makes createCgroup fail
CgroupLimitSteps(cfg) ==
    {   << [file |-> "memory.max", value |-> ToString(memoryBytes(cfg)), fatal |-> TRUE] >>
     \o (IF cfg.enable_swap
         THEN << [file |-> "memory.swap.max", value |-> "0", fatal |-> FALSE] >>
         ELSE <<>>)
     \o << [file |-> "memory.high", value |-> ToString(memoryHigh(cfg)), fatal |-> FALSE],
           [file |-> "cpu.max", value |-> q \o " 100000", fatal |-> TRUE] >>
     \o (IF cfg.max_pids > 0
         THEN << [file |-> "pids.max", value |-> ToString(cfg.max_pids), fatal |-> TRUE] >>
         ELSE <<>>)
     : q \in quota(cfg) }

\* Cgroups::initialize: the writes made under outcome o; with limit_failed
\* the writes end at a fatal one that failed
CgroupWritesAfterInit(m, o, cfg, was) ==
    IF m # "cgroups" THEN {was}
    ELSE IF o = "mkdir_failed" THEN {<<>>}
    ELSE IF o = "ok"
    THEN {[i \in 1..Len(st) |-> CgroupWrite(st[i].file, st[i].value, TRUE)] :
             st \in CgroupLimitSteps(cfg)}
    ELSE {[i \in 1..n |-> CgroupWrite(st[i].file, st[i].value, i < n)] :
             <<st, n>> \in {<<t, k>> \in CgroupLimitSteps(cfg) \X (1..5) :
                                k <= Len(t) /\ t[k].fatal}}

\* Seccomp::initialize: the value it gives enabled_
SeccompEnabled(cfg) ==
    cfg.seccomp_policy # "" \/ cfg.seccomp_profile_path # ""

\* Seccomp::initialize: the default action the policy selects; a policy
\* that is none of the four names leaves defaultAction_ as it was
DefaultActionOf(policy, was) ==
    CASE policy = "default" -> "ERRNO"
      [] policy = "strict"  -> "KILL"
      [] policy = "log"     -> "LOG"
      [] policy = "allow"   -> "ALLOW"
      [] OTHER              -> was

\* initialize(): the outcomes each module's code can produce
InitOutcomes(m, cfg) ==
    CASE m = "cgroups"   -> {"ok", "mkdir_failed", "limit_failed"}
      [] m = "rootfs"    -> {"ok", "no_rootfs"}
      [] m = "seccomp"   -> IF SeccompEnabled(cfg)
                            THEN (IF cfg.seccomp_profile_path # ""
                                  THEN {"ok", "read_failed"}
                                  ELSE {"ok", "policy_failed"})
                            ELSE {"ok"}
      [] m = "my-module" -> {"ok", "failed"}
      [] OTHER           -> {"ok"}

\* Cgroups::createCgroup: the directory exists once mkdirRecursive succeeded,
\* also when a later limit write makes initialize fail
CgroupDirAfterInit(m, o, dir) ==
    IF m = "cgroups" /\ o \in {"ok", "limit_failed"} THEN TRUE ELSE dir

\* Seccomp::initialize: enabled_, defaultAction_ and the cached filter blob.
\* Seccomp::loadProfile reads the file and adds no rule and no blob;
\* Seccomp::generateDefaultPolicy exports the built-in allow-list.
SeccompAfterInit(m, o, cfg, sc) ==
    IF m # "seccomp" THEN sc
    ELSE IF ~SeccompEnabled(cfg) THEN [sc EXCEPT !.enabled = FALSE]
    ELSE LET act == DefaultActionOf(cfg.seccomp_policy, sc.defaultAction) IN
         IF o = "ok" /\ cfg.seccomp_profile_path = ""
         THEN [enabled |-> TRUE, filterBlob |-> "builtin", defaultAction |-> act]
         ELSE [sc EXCEPT !.enabled = TRUE, !.defaultAction = act]

\* prepareChild(): only Cgroups acts (Syscall::addToCgroup)
PrepareOutcomes(m) ==
    CASE m = "cgroups"   -> {"ok", "open_failed", "write_lost"}
      [] m = "my-module" -> {"ok", "failed"}
      [] OTHER           -> {"ok"}

\* Syscall::writeFile reports only a failed open or a failed stream state; a
\* write the kernel rejects when the stream is flushed on destruction is lost
PrepareReturns(o) == o \in {"ok", "write_lost"}

\* cleanup(): every built-in module returns true; Cgroups removes its directory
CleanupOutcomes(m) ==
    CASE m = "cgroups"   -> {"ok", "remove_failed"}
      [] m = "my-module" -> {"ok", "failed"}
      [] OTHER           -> {"ok"}

CleanupReturns(m, o) == ~(m = "my-module" /\ o = "failed")

\* Cgroups::cleanup: Syscall::removeCgroup
CgroupDirAfterCleanup(m, o, dir) ==
    IF m = "cgroups" /\ o = "ok" THEN FALSE ELSE dir

SeccompAfterCleanup(m, sc) ==
    IF m = "seccomp" THEN [sc EXCEPT !.filterBlob = "empty"] ELSE sc

----------------------------------------------------------------------------
(* Initial state: a constructed SandboxManager with a configuration set *)

\* a key of a JSON object: contained or not, and its value when contained
Key(present, value) == [present |-> present, value |-> value]

Absent(value) == Key(FALSE, value)

\* no document: the configuration was built by the caller and set with
\* setConfig
NoJson ==
    [ sections     |-> {},
      name         |-> Absent(""),
      command      |-> Absent(<<>>),
      memory_mb    |-> Absent(0),
      max_pids     |-> Absent(0),
      namespaces   |-> Absent(<<>>),
      capabilities |-> Absent(<<>>),
      bind_mounts  |-> Absent(<<>>) ]

\* ConfigParser::createDefaultConfig, the fields the parser tests look at
createDefaultConfig ==
    [ name         |-> "sandbox-default",
      command      |-> <<"/bin/bash">>,
      memory_mb    |-> 512,
      max_pids     |-> 100,
      namespaces   |-> <<"pid", "net", "ipc", "uts", "mount", "user">>,
      capabilities |-> <<>>,
      bind_mounts  |-> << [source |-> "/tmp", target |-> "/tmp",
                          read_only |-> FALSE] >> ]

\* ConfigParser::validate: "" when it returns, the message when it throws
validate(j) ==
    IF "sandbox" \notin j.sections
    THEN "Config must contain 'sandbox' section"
    ELSE IF "resources" \notin j.sections
    THEN "Config must contain 'resources' section"
    ELSE IF ~j.command.present
    THEN "Sandbox config must contain 'command'"
    ELSE IF ~j.memory_mb.present
    THEN "Resources config must contain 'memory_mb'"
    ELSE ""

\* if (x.contains(key)) field = x[key]
Assigned(key, field) == IF key.present THEN key.value ELSE field

\* if (x.contains(key)) { field.clear(); for (...) field.push_back(...) }
Replaced(key, field) == IF key.present THEN key.value ELSE field

\* if (x.contains(key)) { for (...) field.push_back(...) }
PushedBack(key, field) == IF key.present THEN field \o key.value ELSE field

\* ConfigParser::applyDefaults
applyDefaults(j) ==
    LET d == createDefaultConfig
    IN [ name         |-> Assigned(j.name, d.name),
         command      |-> PushedBack(j.command, d.command),
         memory_mb    |-> Assigned(j.memory_mb, d.memory_mb),
         max_pids     |-> Assigned(j.max_pids, d.max_pids),
         namespaces   |-> Replaced(j.namespaces, d.namespaces),
         capabilities |-> Replaced(j.capabilities, d.capabilities),
         bind_mounts  |-> Replaced(j.bind_mounts, d.bind_mounts) ]

NotParsed == [done |-> FALSE, threw |-> "", config |-> createDefaultConfig]

\* ConfigParser::parse on a parser constructed from a JSON string:
\* validate(), applyDefaults(), return config_
parse(j) ==
    IF validate(j) # ""
    THEN [done |-> TRUE, threw |-> validate(j), config |-> createDefaultConfig]
    ELSE [done |-> TRUE, threw |-> "", config |-> applyDefaults(j)]

\* Caps::capabilityFromName: the names of the fixed table
KnownCapabilities ==
    {"CAP_CHOWN", "CAP_KILL", "CAP_NET_BIND_SERVICE", "CAP_SYS_ADMIN",
     "CAP_SYS_TIME", "CAP_SETUID", "CAP_SETGID"}

\* the forked child; stdoutTo: what its descriptors 1 and 2 refer to, wrote:
\* the bytes it wrote to them, toPipe: the bytes the command has still to
\* write to the copy of pipeFd_[1] it was started with; bounding: its capability bounding set, by the names of
\* that table; mounted: the targets of the bind mounts it made, which stay
\* in the mount table when it is gone
NoChild ==
    [ state |-> "none", pid |-> -1, idx |-> 0, order |-> <<>>, ops |-> <<>>,
      status |-> [kind |-> "none", code |-> 0],
      noNewPrivs |-> FALSE, capSysAdmin |-> FALSE, bounding |-> {},
      mounted |-> <<>>, executed |-> FALSE,
      stdoutTo |-> "none", wrote |-> "", toPipe |-> "",
      applyFailed |-> FALSE, reaper |-> "none", capCount |-> 0,
      seccomp |-> [enabled |-> TRUE, filterBlob |-> "empty",
                   defaultAction |-> "ERRNO"] ]

NewResult ==
    [ exitCode |-> -1, success |-> FALSE, errorMessage |-> "", childPid |-> -1,
      stdout |-> "" ]

\* enum class LogLevel, by name and by value
LogLevels == <<"DEBUG", "INFO", "WARNING", "ERROR", "CRITICAL">>

LogLevelValue(level) == CHOOSE i \in 1..Len(LogLevels) : LogLevels[i] = level

\* Logger::Logger(): minLevel_(DEBUG), initialized_(false); pc: where the
\* thread calling initialize(level, output, logFile) is, lines: the messages
\* written
NewLogger(level, output, logFile) ==
    [ pc |-> "call", level |-> level, output |-> output, logFile |-> logFile,
      minLevel_ |-> "DEBUG", output_ |-> "", mutex_ |-> "free",
      initialized_ |-> FALSE, lines |-> <<>> ]

\* the configuration was not read from a document, the logger is left alone
NoParser ==
    /\ json_ = NoJson /\ parsed = NotParsed
    /\ logger = NewLogger("INFO", "stdout", "")

\* the members a constructed SandboxManager starts with
Constructed ==
    /\ state_ = "CREATED"
    /\ cgroupWrites = <<>>
    /\ activeMounts_ = <<>>
    /\ pipeBuf = ""
    /\ executionOrder_ = <<>>
    /\ childPid_ = -1
    /\ pc = "idle"
    /\ idx = 0
    /\ result = NewResult
    /\ returned = FALSE
    /\ runs = 0
    /\ moduleState = [m \in ModuleNames |-> "UNINITIALIZED"]
    /\ seccomp = [enabled |-> TRUE, filterBlob |-> "empty",
                  defaultAction |-> "ERRNO"]
    /\ cgroupDir = FALSE
    /\ cgroupProcs = {}
    /\ parentLog = <<>>
    /\ child = NoChild
    /\ nextPid = 1
    /\ signals = <<>>
    /\ stopPc = "idle"
    /\ stopLeft = 0
    /\ stops = 0

Init ==
    /\ config \in Configs
    /\ NoParser
    /\ modules_ = {}
    /\ declared = [m \in Range(NamesSorted) |-> getDependencies(m)]
    /\ Constructed

----------------------------------------------------------------------------
(* Registration *)

\* main.cpp registerDefaultModules
RegisterDefaultModules ==
    /\ pc = "idle" /\ runs = 0
    /\ ~(Range(DefaultModules) \subseteq modules_)
    /\ modules_' = modules_ \cup Range(DefaultModules)
    /\ UNCHANGED <<config, json_, parsed, logger, declared, cgroupWrites, activeMounts_, pipeBuf, state_, executionOrder_, childPid_, pc, idx, result,
                   returned, runs, moduleState, seccomp, cgroupDir, cgroupProcs,
                   parentLog, child, nextPid, signals,
                   stopVars>>

\* SandboxManager::registerModule with a user-written module
RegisterModule(m) ==
    /\ pc = "idle" /\ runs = 0
    /\ m \notin modules_
    /\ modules_' = modules_ \cup {m}
    /\ UNCHANGED <<config, json_, parsed, logger, declared, cgroupWrites, activeMounts_, pipeBuf, state_, executionOrder_, childPid_, pc, idx, result,
                   returned, runs, moduleState, seccomp, cgroupDir, cgroupProcs,
                   parentLog, child, nextPid, signals,
                   stopVars>>

----------------------------------------------------------------------------
(* SandboxManager::run, parent side *)

Logged(hook, m, ok) == [hook |-> hook, module |-> m, ok |-> ok]

\* run() up to and including resolveDependencies
RunStart ==
    /\ pc = "idle" /\ runs + stops < MaxCalls
    /\ runs' = runs + 1
    /\ result' = NewResult
    /\ returned' = FALSE
    /\ state_' = "INITIALIZING"
    /\ executionOrder_' = resolveDependencies(modules_)
    /\ parentLog' = <<>>
    /\ cgroupWrites' = <<>>
    /\ signals' = <<>>
    /\ child' = NoChild
    /\ pc' = "init" /\ idx' = 1
    /\ UNCHANGED <<config, json_, parsed, logger, declared, activeMounts_, pipeBuf, modules_, childPid_, moduleState, seccomp, cgroupDir,
                   cgroupProcs, nextPid, stopVars>>

\* an initializeModules that goes on after a failed initialize
InitializeGoesOn(ok) == FALSE

\* initializeModules returns false at the first module whose initialize fails
InitializeStops(ok) == ~ok

\* run() returning early with an error message: setState(ERROR); return result
ReturnError(msg) ==
    /\ result' = [result EXCEPT !.errorMessage = msg]
    /\ state_' = "ERROR"
    /\ returned' = TRUE
    /\ pc' = "idle" /\ idx' = 0

\* one iteration of initializeModules
InitializeModule ==
    /\ pc = "init" /\ idx <= Len(executionOrder_)
    /\ LET m == executionOrder_[idx] IN
       \E o \in InitOutcomes(m, config) :
         LET ok == (o = "ok") IN
         /\ parentLog' = Append(parentLog, Logged("initialize", m, ok))
         /\ cgroupDir' = CgroupDirAfterInit(m, o, cgroupDir)
         /\ cgroupWrites' \in CgroupWritesAfterInit(m, o, config, cgroupWrites)
         /\ seccomp' = SeccompAfterInit(m, o, config, seccomp)
         /\ moduleState' = IF ok THEN [moduleState EXCEPT ![m] = "INITIALIZED"]
                           ELSE moduleState
         /\ IF InitializeStops(ok)
            THEN ReturnError("Failed to initialize modules")
            ELSE /\ idx' = idx + 1
                 /\ UNCHANGED <<pc, result, state_, returned>>
    /\ UNCHANGED <<config, json_, parsed, logger, declared, activeMounts_, pipeBuf, modules_, executionOrder_, childPid_, runs,
                   cgroupProcs, child, nextPid, signals,
                   stopVars>>

\* pipe(pipeFd_)
CreatePipe ==
    /\ pc = "init" /\ idx > Len(executionOrder_)
    /\ \/ /\ pc' = "fork"
          /\ pipeBuf' = ""
          /\ UNCHANGED <<result, state_, returned, idx>>
       \/ /\ ReturnError("Failed to create pipe")
          /\ UNCHANGED pipeBuf
    /\ UNCHANGED <<config, json_, parsed, logger, declared, cgroupWrites, activeMounts_, modules_, executionOrder_, childPid_, runs,
                   moduleState, seccomp, cgroupDir, cgroupProcs, parentLog,
                   child, nextPid, signals,
                   stopVars>>

\* fork() failing
ForkFails ==
    /\ pc = "fork"
    /\ childPid_' = -1
    /\ ReturnError("Failed to fork process")
    /\ UNCHANGED <<config, json_, parsed, logger, declared, cgroupWrites, activeMounts_, pipeBuf, modules_, executionOrder_, runs, moduleState, seccomp,
                   cgroupDir, cgroupProcs, parentLog, child, nextPid, signals,
                   stopVars>>

\* what descriptors 1 and 2 of the child refer to when executeChild starts:
\* the child branch of run() closes pipeFd_[0] and duplicates nothing, so
\* they are the ones the parent had
ChildStdout == "inherited"

\* fork() succeeding: the child starts with a copy of the parent's memory, the
\* parent goes on to setState(RUNNING)
Fork ==
    /\ pc = "fork"
    /\ childPid_' = nextPid
    /\ nextPid' = nextPid + 1
    /\ child' = [NoChild EXCEPT !.state = "running", !.pid = nextPid, !.idx = 1,
                                !.order = executionOrder_,
                                !.capSysAdmin = TRUE,
                                !.bounding = KnownCapabilities,
                                !.stdoutTo = ChildStdout,
                                !.seccomp = seccomp]
    /\ result' = [result EXCEPT !.childPid = nextPid]
    /\ state_' = "RUNNING"
    /\ pc' = "prepare" /\ idx' = 1
    /\ UNCHANGED <<config, json_, parsed, logger, declared, cgroupWrites, activeMounts_, pipeBuf, modules_, executionOrder_, returned, runs, moduleState,
                   seccomp, cgroupDir, cgroupProcs, parentLog, signals,
                   stopVars>>

----------------------------------------------------------------------------
(* Signals and the child's termination, as the kernel delivers them *)

Exited(code) == [kind |-> "exit", code |-> code]

Signaled(sig) == [kind |-> "signal", code |-> sig]

\* kill(pid, SIGKILL): a running process dies, a zombie is unaffected
KillChild(ch, sig) ==
    IF ch.state = "running"
    THEN [ch EXCEPT !.state = "zombie", !.status = Signaled(sig)]
    ELSE ch

\* waitpid() reaping a zombie: the process is gone, its status is handed over
\* to the caller (by: "run" or "stop")
Reaped(ch, by) ==
    [NoChild EXCEPT !.state = "reaped", !.pid = ch.pid, !.status = ch.status,
                    !.executed = ch.executed, !.applyFailed = ch.applyFailed,
                    !.mounted = ch.mounted, !.stdoutTo = ch.stdoutTo,
                    !.wrote = ch.wrote, !.reaper = by]

\* a kill() call: the signal, the pid it names, the caller and the state the
\* child was in when it was made
Sent(sig, pid, by, ch) == [sig |-> sig, pid |-> pid, by |-> by, target |-> ch.state]

----------------------------------------------------------------------------
(* SandboxManager::run, after the fork *)

\* prepareChildProcess returns false at the first module whose prepareChild fails
PrepareStops(ok) == ~ok

\* a prepareChild that only logs and returns true
QuietPrepare(m) == PrepareOutcomes(m) = {"ok"}

\* the first index from i on whose prepareChild acts, or one past the end
NextPrepare(order, i) ==
    LET acting == {j \in i..Len(order) : ~QuietPrepare(order[j])}
    IN IF acting = {} THEN Len(order) + 1
       ELSE CHOOSE j \in acting : \A k \in acting : j <= k

\* prepareChildProcess from module idx up to and including the next module
\* whose prepareChild acts (the hooks before it touch nothing outside the
\* parent); on failure run() sends SIGKILL
PrepareModule ==
    /\ pc = "prepare" /\ idx <= Len(executionOrder_)
    /\ LET n == NextPrepare(executionOrder_, idx)
           quiet == [k \in 1..(n - idx) |->
                        Logged("prepareChild", executionOrder_[idx + k - 1], TRUE)]
       IN IF n > Len(executionOrder_)
          THEN /\ parentLog' = parentLog \o quiet
               /\ idx' = n
               /\ UNCHANGED <<pc, child, signals, cgroupProcs>>
          ELSE LET m == executionOrder_[n] IN
               \E o \in PrepareOutcomes(m) :
                 LET ok == PrepareReturns(o) IN
                 /\ parentLog' = parentLog \o quiet
                                    \o << Logged("prepareChild", m, ok) >>
                 /\ cgroupProcs' = IF m = "cgroups" /\ o = "ok"
                                   THEN cgroupProcs \cup {childPid_} ELSE cgroupProcs
                 /\ IF PrepareStops(ok)
                    THEN /\ child' = KillChild(child, SIGKILL)
                         /\ signals' = Append(signals, Sent(SIGKILL, childPid_, "run", child))
                         /\ pc' = "wait" /\ idx' = 0
                    ELSE /\ idx' = n + 1
                         /\ UNCHANGED <<pc, child, signals>>
    /\ UNCHANGED <<config, json_, parsed, logger, declared, cgroupWrites, activeMounts_, pipeBuf, modules_, state_, executionOrder_, childPid_, result,
                   returned, runs, moduleState, seccomp, cgroupDir, nextPid, stopVars>>

\* prepareChildProcess returns true
PrepareDone ==
    /\ pc = "prepare" /\ idx > Len(executionOrder_)
    /\ pc' = "wait" /\ idx' = 0
    /\ UNCHANGED <<config, json_, parsed, logger, declared, cgroupWrites, activeMounts_, pipeBuf, modules_, state_, executionOrder_, childPid_, result,
                   returned, runs, moduleState, seccomp, cgroupDir, cgroupProcs,
                   parentLog, child, nextPid, signals,
                   stopVars>>

\* a run() that reads every wait status as a normal exit
InterpretAsExit(res, st) ==
    [res EXCEPT !.exitCode = st.code, !.success = (st.code = 0)]

\* the result fields run() derives from the wait status
InterpretStatus(res, st) ==
    CASE st.kind = "exit" ->
            [res EXCEPT !.exitCode = st.code, !.success = (st.code = 0)]
      [] st.kind = "signal" ->
            [res EXCEPT !.exitCode = -st.code, !.success = FALSE,
                        !.errorMessage = "Killed by signal: " \o ToString(st.code)]
      [] OTHER -> res

\* the read loop of run(): result.stdout += what the pipe holds
ReadOutput(res, buf) == [res EXCEPT !.stdout = @ \o buf]

\* waitpid(childPid_, &status, 0), the pipe drained to EOF, the status
\* interpreted and setState(STOPPING)
WaitChild ==
    /\ pc = "wait"
    /\ child.state # "running"
    /\ IF child.state = "zombie"
       THEN /\ child' = Reaped(child, "run")
            /\ result' = InterpretStatus(ReadOutput(result, pipeBuf), child.status)
       ELSE /\ result' = ReadOutput(result, pipeBuf)
            /\ UNCHANGED child
    /\ pipeBuf' = ""
    /\ state_' = "STOPPING"
    /\ pc' = "cleanup" /\ idx' = 0
    /\ UNCHANGED <<config, json_, parsed, logger, declared, cgroupWrites, activeMounts_, modules_, executionOrder_, childPid_, returned, runs,
                   moduleState, seccomp, cgroupDir, cgroupProcs, parentLog, nextPid, signals,
                   stopVars>>

\* the order in which cleanupModules visits the modules: rbegin() to rend()
CleanupSequence(order) == [i \in 1..Len(order) |-> order[Len(order) + 1 - i]]

\* Mounts::cleanup: Syscall::unmount(it->target), flags defaulted to 0, over
\* activeMounts_ from its end to its start
MountsCleanupUnmounts(active) ==
    [i \in 1..Len(active) |->
        [hook |-> "unmount", module |-> "mounts", ok |-> TRUE,
         target |-> active[Len(active) + 1 - i], flags |-> "0"]]

\* what a cleanup hook leaves in the log: Cgroups::cleanup calls
\* Syscall::removeCgroup and drops its result, Mounts::cleanup unmounts its
\* activeMounts_, then every hook returns
CleanupLogged(log, m, o) ==
    (IF m = "cgroups" THEN Append(log, Logged("removeCgroup", m, o = "ok"))
     ELSE IF m = "mounts" THEN log \o MountsCleanupUnmounts(activeMounts_)
     ELSE log)
    \o << Logged("cleanup", m, CleanupReturns(m, o)) >>

\* a cleanupModules that gives up at the first cleanup returning false
CleanupStopsOnFailure(ok) == ~ok

\* cleanupModules only notes a failed cleanup (success = false) and goes on
CleanupStops(ok) == FALSE

\* the loop of cleanupModules over the modules of seq; outcomeOf[m] is what
\* the cleanup of module m meets.  st = [log, dir, procs, seccomp, moduleState]
RECURSIVE cleanupLoop(_, _, _)
cleanupLoop(seq, outcomeOf, st) ==
    IF seq = <<>> THEN st
    ELSE LET m == Head(seq)
             o == outcomeOf[m]
             st1 == [ log         |-> CleanupLogged(st.log, m, o),
                      dir         |-> CgroupDirAfterCleanup(m, o, st.dir),
                      procs       |-> IF m = "cgroups" /\ o = "ok" THEN {} ELSE st.procs,
                      seccomp     |-> SeccompAfterCleanup(m, st.seccomp),
                      moduleState |-> [st.moduleState EXCEPT ![m] = "STOPPED"] ]
         IN IF CleanupStops(CleanupReturns(m, o)) THEN st1
            ELSE cleanupLoop(Tail(seq), outcomeOf, st1)

CleanupChoices ==
    { [m \in ModuleNames |->
          IF m = "cgroups" THEN oc ELSE IF m = "my-module" THEN om ELSE "ok"] :
      oc \in CleanupOutcomes("cgroups"), om \in CleanupOutcomes("my-module") }

\* cleanupModules(): every module's cleanup, then executionOrder_.clear() and
\* childPid_ = -1; then setState(STOPPED) and the return of run()
CleanupModules ==
    /\ pc = "cleanup"
    /\ \E outcomeOf \in CleanupChoices :
         LET st == cleanupLoop(CleanupSequence(executionOrder_), outcomeOf,
                               [ log |-> parentLog, dir |-> cgroupDir,
                                 procs |-> cgroupProcs, seccomp |-> seccomp,
                                 moduleState |-> moduleState ])
         IN /\ parentLog' = st.log
            /\ cgroupDir' = st.dir
            /\ cgroupProcs' = st.procs
            /\ seccomp' = st.seccomp
            /\ moduleState' = st.moduleState
    /\ activeMounts_' = IF "mounts" \in Range(executionOrder_) THEN <<>>
                        ELSE activeMounts_
    /\ executionOrder_' = <<>>
    /\ childPid_' = -1
    /\ state_' = "STOPPED"
    /\ returned' = TRUE
    /\ pc' = "idle"
    /\ UNCHANGED <<config, json_, parsed, logger, declared, cgroupWrites, pipeBuf, modules_, idx, result, runs, child,
                   nextPid, signals, stopVars>>

----------------------------------------------------------------------------
(* The hooks of the modules, child side.  applyChild is a sequence of      *)
(* steps; a fatal step that fails makes the hook return false, the other   *)
(* steps only warn.  need: the privilege the kernel asks of the caller.    *)

Step(op, arg, fatal, need) == [op |-> op, arg |-> arg, fatal |-> fatal, need |-> need]

\* Namespaces::applyUserNamespace: the line written to uid_map / gid_map
MapLine(map) ==
    ToString(map.container) \o " " \o ToString(map.host) \o " " \o ToString(map.count)

\* a Namespaces::applyChild that writes gid_map before uid_map and takes a
\* failing sethostname for fatal
NamespacesStepsSwapped(cfg) ==
    (IF "user" \in cfg.namespaces
     THEN << Step("write_setgroups", "deny", FALSE, "none"),
             Step("write_gid_map", MapLine(cfg.gid_map), TRUE, "none"),
             Step("write_uid_map", MapLine(cfg.uid_map), TRUE, "none") >>
     ELSE <<>>)
    \o (IF "uts" \in cfg.namespaces
        THEN << Step("sethostname", cfg.hostname, TRUE, "hostname") >> ELSE <<>>)

\* Namespaces::applyChild with Namespaces::applyUserNamespace
NamespacesSteps(cfg) ==
    (IF "user" \in cfg.namespaces
     THEN << Step("write_setgroups", "deny", FALSE, "none"),
             Step("write_uid_map", MapLine(cfg.uid_map), TRUE, "none"),
             Step("write_gid_map", MapLine(cfg.gid_map), TRUE, "none") >>
     ELSE <<>>)
    \o (IF "pid" \in cfg.namespaces
        THEN << Step("mount", "/proc", TRUE, "admin") >> ELSE <<>>)
    \o (IF "mount" \in cfg.namespaces
        THEN << Step("mount", "/sys", FALSE, "admin") >> ELSE <<>>)
    \o (IF "uts" \in cfg.namespaces
        THEN << Step("sethostname", cfg.hostname, FALSE, "hostname") >> ELSE <<>>)

\* RootFS::applyChild with RootFS::setupMounts and RootFS::doPivotRoot
RootFSSteps(cfg) ==
    << Step("mkdir", "required_dirs", FALSE, "none"),
       Step("mkdir", "oldroot", TRUE, "none"),
       Step("mount", "rootfs_bind", TRUE, "admin"),
       Step("pivot_root", "", TRUE, "admin"),
       Step("chdir", "/", TRUE, "none"),
       Step("umount", "oldroot", FALSE, "admin"),
       Step("mount", "/proc", TRUE, "admin"),
       Step("mount", "/sys", FALSE, "admin"),
       Step("mount", "/dev", FALSE, "admin") >>

\* Mounts::applyBindMount with Mounts::ensureMountTarget
BindMountSteps(bm) ==
    << Step("mkdir", "source", FALSE, "none") >>
    \o (IF bm.target \in {"", "/"} THEN <<>>
        ELSE << Step("mkdir", bm.target, TRUE, "none") >>)
    \o << Step("bind_mount", bm.target, TRUE, "admin") >>
    \o (IF bm.read_only
        THEN << Step("remount_ro", bm.target, FALSE, "admin") >> ELSE <<>>)

\* Mounts::applyChild
MountsSteps(cfg) ==
    LET RECURSIVE go(_)
        go(bms) == IF bms = <<>> THEN <<>>
                   ELSE BindMountSteps(Head(bms)) \o go(Tail(bms))
    IN go(cfg.bind_mounts)

\* Mounts::applyChild: the targets of the bind mounts made so far (each is
\* pushed to the child's activeMounts_ once applyBindMount returned true)
AppliedMounts(ops) ==
    LET made == SelectSeq(ops, LAMBDA o : o.by = "mounts" /\ o.op = "bind_mount" /\ o.ok)
    IN [i \in 1..Len(made) |-> made[i].arg]

\* Seccomp::installFilter: an empty filterBlob_ is filled by
\* loadDefaultAllowlist, that is by generateDefaultPolicy
FilterInstalled(sc) ==
    IF sc.filterBlob = "empty" THEN "builtin" ELSE sc.filterBlob

\* Seccomp::applyChild with Seccomp::installFilter
SeccompSteps(sc) ==
    IF ~sc.enabled THEN <<>>
    ELSE (IF sc.filterBlob = "empty"
          THEN << Step("compile_filter", "", TRUE, "none") >> ELSE <<>>)
         \o << Step("prctl_seccomp", FilterInstalled(sc), TRUE, "seccomp") >>

CapList(cfg) == SelectSeq(cfg.capabilities, LAMBDA c : c \in KnownCapabilities)

\* cap_value_t capList[64]
CapListSize == 64

\* the loop of Caps::applyChild over config.security.capabilities:
\* capList[capCount++] = capNum for every name of the table; the value of
\* capCount after it
FillCapList(names) ==
    Cardinality({i \in 1..Len(names) : names[i] \in KnownCapabilities})

\* capList[capCount++] with capCount >= 64 writes past the end of the array,
\* into the stack frame of applyChild: the hook goes on with what it wrote,
\* or the child dies of the damage (SIGSEGV)
OverrunOutcomes(m, cfg, ch) ==
    IF m = "caps" /\ FillCapList(cfg.capabilities) > CapListSize
    THEN {ch, [ch EXCEPT !.state = "zombie", !.status = Signaled(11)]}
    ELSE {ch}

\* Caps::applyChild
CapsSteps(cfg) ==
    << Step("cap_get_proc", "", TRUE, "none") >>
    \o (IF Len(CapList(cfg)) > 0
        THEN << Step("cap_set_flag", "", TRUE, "none") >> ELSE <<>>)
    \o << Step("cap_set_proc", "", TRUE, "none") >>
    \o [i \in 1..Len(CapList(cfg)) |->
          Step("cap_update_ambient", CapList(cfg)[i], FALSE, "none")]

ApplySteps(m, cfg, ch) ==
    CASE m = "namespaces" -> NamespacesSteps(cfg)
      [] m = "rootfs"     -> RootFSSteps(cfg)
      [] m = "mounts"     -> MountsSteps(cfg)
      [] m = "seccomp"    -> SeccompSteps(ch.seccomp)
      [] m = "caps"       -> CapsSteps(cfg)
      [] m = "my-module"  -> << Step("custom_apply", "", TRUE, "none") >>
      [] OTHER            -> <<>>

\* what the kernel asks of the caller of a privileged operation
Permitted(step, ch) ==
    CASE step.need = "admin"   -> ch.capSysAdmin
      [] step.need = "hostname" -> ch.capSysAdmin /\ Len(step.arg) <= 64
      [] step.need = "seccomp" -> ch.noNewPrivs \/ ch.capSysAdmin
      [] OTHER                 -> TRUE

\* the runs of a hook: all steps done, or stopped at a failing fatal step
\* (n steps were issued; failed: the n-th one failed)
ApplyOutcomes(steps, ch) ==
    LET fatal == {i \in 1..Len(steps) : steps[i].fatal}
        canPass(i) == \A j \in fatal : j < i => Permitted(steps[j], ch)
    IN {[ok |-> TRUE, n |-> Len(steps)] : x \in {1} \cap
                                          (IF canPass(Len(steps) + 1) THEN {1} ELSE {})}
       \cup {[ok |-> FALSE, n |-> i] : i \in {j \in fatal : canPass(j)}}

\* the operations a run of a hook issued; a step that only warns fails when
\* the kernel refuses it
OpsOf(m, steps, out, ch) ==
    [j \in 1..out.n |->
        [by |-> m, op |-> steps[j].op, arg |-> steps[j].arg,
         ok |-> IF steps[j].fatal THEN (out.ok \/ j < out.n)
                ELSE Permitted(steps[j], ch)]]

HookMark(m) == [by |-> m, op |-> "applyChild", arg |-> "", ok |-> TRUE]

\* the process attributes a successful hook changes
ChildAfterApply(m, cfg, out, ch) ==
    IF ~out.ok THEN ch
    ELSE CASE m = "caps"    -> [ch EXCEPT !.capSysAdmin =
                                   ("CAP_SYS_ADMIN" \in Range(CapList(cfg))),
                                          !.capCount =
                                   FillCapList(cfg.capabilities)]
           [] m = "seccomp" -> [ch EXCEPT !.seccomp.filterBlob =
                                   IF ch.seccomp.enabled
                                   THEN FilterInstalled(ch.seccomp) ELSE @]
           [] OTHER         -> ch

----------------------------------------------------------------------------
(* SandboxManager::executeChild, in the forked child *)

\* exit codes of the command: success, and the shell's "cannot execute"
ExitCodes == {0, 127}

\* an executeChild that goes on to the next hook after a failed applyChild
ApplyGoesOn(ok) == FALSE

\* a failing applyChild makes executeChild return 1
ApplyStops(ok) == ~ok

\* the first index from i on whose applyChild issues an operation, or one
\* past the end
NextApply(order, i, cfg, ch) ==
    LET acting == {j \in i..Len(order) : ApplySteps(order[j], cfg, ch) # <<>>}
    IN IF acting = {} THEN Len(order) + 1
       ELSE CHOOSE j \in acting : \A k \in acting : j <= k

\* the applyChild loop from module child.idx up to and including the next
\* module whose applyChild issues an operation (the hooks before it only
\* return true)
ChildApply ==
    /\ child.state = "running" /\ ~child.executed
    /\ child.idx <= Len(child.order)
    /\ LET n == NextApply(child.order, child.idx, config, child)
           quiet == [k \in 1..(n - child.idx) |->
                        HookMark(child.order[child.idx + k - 1])]
       IN IF n > Len(child.order)
          THEN child' = [child EXCEPT !.idx = n, !.ops = @ \o quiet]
          ELSE LET m == child.order[n]
                   steps == ApplySteps(m, config, child)
               IN \E out \in ApplyOutcomes(steps, child) :
                    LET ops == child.ops \o quiet \o <<HookMark(m)>>
                                         \o OpsOf(m, steps, out, child)
                        ch1 == [ChildAfterApply(m, config, out, child) EXCEPT
                                  !.ops = ops, !.mounted = AppliedMounts(ops),
                                  !.applyFailed = @ \/ ~out.ok]
                    IN child' \in OverrunOutcomes(m, config,
                                   IF ApplyStops(out.ok)
                                   THEN [ch1 EXCEPT !.state = "zombie",
                                                    !.status = Exited(1)]
                                   ELSE [ch1 EXCEPT !.idx = n + 1])
    /\ UNCHANGED <<config, json_, parsed, logger, declared, cgroupWrites, activeMounts_, pipeBuf, modules_, state_, executionOrder_, childPid_, pc, idx,
                   result, returned, runs, moduleState, seccomp, cgroupDir,
                   cgroupProcs, parentLog, nextPid, signals,
                   stopVars>>

\* what config.sandbox.command writes to its descriptors 1 and 2
CommandOutput(command) ==
    CASE command = <<"/bin/echo", "hello">> -> "hello"
      [] command = <<"/bin/sh", "-c", "echo out; echo err >&2">> -> "outerr"
      [] OTHER -> ""

\* a write of the child to its descriptor 1 or 2 reaches the pipe only if
\* the descriptor refers to pipeFd_[1]
PipeAfterWrite(ch, bytes, buf) ==
    IF ch.stdoutTo = "pipe" THEN buf \o bytes ELSE buf

\* what config.sandbox.command writes to descriptor pipeFd_[1], which the
\* child branch of run() leaves open and pipe() created without O_CLOEXEC
CommandPipeOutput(command) ==
    CASE command = <<"/bin/sh", "-c", "echo note >&4">> -> "note"
      [] command = <<"/bin/sh", "-c", "seq 1 100000 >&4">> -> "1234567891011121314"
      [] OTHER -> ""

\* a write to a pipe returns once the pipe has room for the bytes; until
\* then the writer sleeps
WriteBlocks(bytes, buf) == Len(buf) + Len(bytes) > PipeCapacity

\* the files of the sandbox's root that execve accepts
Executables == {"/bin/bash", "/bin/echo", "/bin/sh"}

\* execute(config_): execve(command[0], command, envp) replaces the process
\* image; when it fails the child ends with _exit(127)
execute(command) ==
    IF command # <<>> /\ command[1] \in Executables
    THEN [ok |-> TRUE, path |-> command[1], status |-> Exited(0)]
    ELSE [ok |-> FALSE, path |-> IF command = <<>> THEN "" ELSE command[1],
          status |-> Exited(127)]

\* return execute(config_): the user command starts and writes its output,
\* or the child ends with what execute returned
ChildExecute ==
    /\ child.state = "running" /\ ~child.executed
    /\ child.idx > Len(child.order)
    /\ LET ex == execute(config.command)
           ops == Append(child.ops, [by |-> "engine", op |-> "execute",
                                     arg |-> ex.path, ok |-> ex.ok])
       IN IF ex.ok
          THEN /\ child' = [child EXCEPT !.executed = TRUE,
                               !.wrote = @ \o CommandOutput(config.command),
                               !.toPipe = CommandPipeOutput(config.command),
                               !.ops = ops]
               /\ pipeBuf' = PipeAfterWrite(child, CommandOutput(config.command),
                                            pipeBuf)
          ELSE /\ child' = [child EXCEPT !.state = "zombie",
                               !.status = ex.status, !.ops = ops]
               /\ UNCHANGED pipeBuf
    /\ UNCHANGED <<config, json_, parsed, logger, declared, cgroupWrites, activeMounts_, modules_, state_, executionOrder_, childPid_, pc, idx,
                   result, returned, runs, moduleState, seccomp, cgroupDir,
                   cgroupProcs, parentLog, nextPid, signals,
                   stopVars>>

\* the command finishes what it writes to the pipe and ends with its exit code
ChildExit ==
    /\ child.state = "running" /\ child.executed
    /\ ~WriteBlocks(child.toPipe, pipeBuf)
    /\ pipeBuf' = pipeBuf \o child.toPipe
    /\ \E code \in ExitCodes :
         child' = [child EXCEPT !.state = "zombie", !.status = Exited(code),
                                !.toPipe = ""]
    /\ UNCHANGED <<config, json_, parsed, logger, declared, cgroupWrites, activeMounts_, modules_, state_, executionOrder_, childPid_, pc, idx,
                   result, returned, runs, moduleState, seccomp, cgroupDir,
                   cgroupProcs, parentLog, nextPid, signals,
                   stopVars>>

----------------------------------------------------------------------------
(* SandboxManager::stop, called from another thread *)

\* SIGTERM: fatal to the child while it runs the engine's code; the command
\* it executes may handle or ignore it
TermChild(ch) ==
    IF ch.state # "running" THEN {ch}
    ELSE {KillChild(ch, SIGTERM)} \cup (IF ch.executed THEN {ch} ELSE {})

runVars == <<config, json_, parsed, logger, declared, cgroupWrites, activeMounts_, pipeBuf, modules_, state_, executionOrder_, childPid_, pc, idx, result,
             returned, runs, moduleState, seccomp, cgroupDir, cgroupProcs,
             parentLog, nextPid>>

\* stop(timeoutMs) with no child: returns true at once
StopNoChild ==
    /\ stopPc = "idle" /\ runs + stops < MaxCalls
    /\ childPid_ < 0
    /\ stops' = stops + 1
    /\ UNCHANGED <<runVars, child, signals, stopPc, stopLeft>>

\* stop(timeoutMs): kill(childPid_, SIGTERM) and attempts = timeoutMs / 100
StopTerm ==
    /\ stopPc = "idle" /\ runs + stops < MaxCalls
    /\ childPid_ >= 0
    /\ stops' = stops + 1
    /\ \E timeoutMs \in TimeoutsMs : stopLeft' = timeoutMs \div 100
    /\ signals' = Append(signals, Sent(SIGTERM, childPid_, "stop", child))
    /\ child' \in TermChild(child)
    /\ stopPc' = "poll"
    /\ UNCHANGED runVars

\* one iteration of the polling loop: waitpid(childPid_, &status, WNOHANG)
StopPoll ==
    /\ stopPc = "poll" /\ stopLeft > 0
    /\ IF child.state = "running" /\ childPid_ >= 0
       THEN /\ stopLeft' = stopLeft - 1
            /\ UNCHANGED <<child, stopPc>>
       ELSE /\ child' = IF child.state = "zombie"
                        THEN Reaped(child, "stop") ELSE child
            /\ stopPc' = "idle" /\ stopLeft' = 0
    /\ UNCHANGED <<runVars, signals, stops>>

\* the timeout expired: kill(childPid_, SIGKILL); waitpid(childPid_, nullptr, 0)
StopKill ==
    /\ stopPc = "poll" /\ stopLeft = 0
    /\ signals' = Append(signals, Sent(SIGKILL, childPid_, "stop", child))
    /\ child' = IF child.state \in {"running", "zombie"}
                THEN Reaped(KillChild(child, SIGKILL), "stop")
                ELSE child
    /\ stopPc' = "idle"
    /\ UNCHANGED <<runVars, stopLeft, stops>>

----------------------------------------------------------------------------

Next ==
    \/ RegisterDefaultModules
    \/ \E m \in CustomModules : RegisterModule(m)
    \/ RunStart
    \/ InitializeModule
    \/ CreatePipe
    \/ ForkFails
    \/ Fork
    \/ PrepareModule
    \/ PrepareDone
    \/ WaitChild
    \/ CleanupModules
    \/ ChildApply
    \/ ChildExecute
    \/ ChildExit
    \/ StopNoChild
    \/ StopTerm
    \/ StopPoll
    \/ StopKill

Spec == Init /\ [][Next]_vars

----------------------------------------------------------------------------
(* The same program run with the other settings of the security section:   *)
(* the policy selector "off", and a custom profile path.                   *)

\* CAP_SYS_ADMIN is retained, so that the child may install a filter
SeccompConfigs ==
    { [DefaultConfig EXCEPT !.capabilities = <<"CAP_SYS_ADMIN">>,
                            !.seccomp_policy = "off"],
      [DefaultConfig EXCEPT !.capabilities = <<"CAP_SYS_ADMIN">>,
                            !.seccomp_profile_path = "/etc/sandbox/seccomp.json"] }

InitSeccomp ==
    /\ config \in SeccompConfigs
    /\ NoParser
    /\ modules_ = {}
    /\ declared = [m \in Range(NamesSorted) |-> getDependencies(m)]
    /\ Constructed

SpecSeccomp == InitSeccomp /\ [][Next]_vars

----------------------------------------------------------------------------
(* The command-line program: main() registers the default modules and      *)
(* calls run(); no thread calls stop().                                     *)

RunNext ==
    \/ RunStart
    \/ InitializeModule
    \/ CreatePipe
    \/ ForkFails
    \/ Fork
    \/ PrepareModule
    \/ PrepareDone
    \/ WaitChild
    \/ CleanupModules
    \/ ChildApply
    \/ ChildExecute
    \/ ChildExit

\* the manager after registerDefaultModules(manager)
MainRegistered ==
    /\ modules_ = Range(DefaultModules)
    /\ declared = [m \in Range(NamesSorted) |-> getDependencies(m)]
    /\ Constructed

\* settings of the resources section: the default ones, the ones of the
\* documented happy path, and cpu quotas around the largest one whose
\* product with 1000 fits an int; and the default ones with CAP_SYS_ADMIN
\* kept, under which the child gets as far as the command
ResourceConfigs ==
    { [DefaultConfig EXCEPT !.memory_mb = mb, !.cpu_quota_percent = c,
                            !.max_pids = p, !.enable_swap = sw] :
        mb \in {128, 512, 2047}, c \in {25, 50, 2147483, 2147484},
        p \in {0, 100}, sw \in BOOLEAN }
    \cup { [DefaultConfig EXCEPT !.capabilities = <<"CAP_SYS_ADMIN">>] }

InitCgroups == config \in ResourceConfigs /\ NoParser /\ MainRegistered

\* a hostname of 65 characters, one more than sethostname accepts
LongHostname == "sandbox-container-0123456789-0123456789-0123456789-0123456789-012"

\* settings of the isolation and security sections: any of the namespaces
\* the hooks look at, two id maps, CAP_SYS_ADMIN kept or dropped
NamespaceConfigs ==
    { [DefaultConfig EXCEPT !.namespaces = ns, !.capabilities = caps,
                            !.uid_map = ids.map, !.hostname = ids.hostname,
                            !.bind_mounts = <<>>] :
        ns \in SUBSET {"user", "pid", "mount", "uts"},
        caps \in {<<>>, <<"CAP_SYS_ADMIN">>},
        ids \in { [map |-> DefaultConfig.uid_map, hostname |-> DefaultConfig.hostname],
                  [map |-> [container |-> 0, host |-> 1000, count |-> 65536],
                   hostname |-> LongHostname] } }

InitNamespaces == config \in NamespaceConfigs /\ NoParser /\ MainRegistered

SpecNamespaces == InitNamespaces /\ [][RunNext]_vars

SpecCgroups == InitCgroups /\ [][RunNext]_vars

----------------------------------------------------------------------------
(* Runs with capability lists of every length *)

\* n names, taken in turn from pattern
RepeatedNames(pattern, n) == [i \in 1..n |-> pattern[((i - 1) % Len(pattern)) + 1]]

\* lists of one name repeated, and of a name of the table in turn with one
\* that is not in it
CapsConfigs ==
    { [DefaultConfig EXCEPT !.capabilities = RepeatedNames(pattern, n)] :
        pattern \in { <<"CAP_SYS_ADMIN">>, <<"CAP_CHOWN", "CAP_BOGUS">> },
        n \in {0, 1, CapListSize - 1, CapListSize} \cup (CapListSize + 1)..MaxCapNames }

InitCaps == config \in CapsConfigs /\ NoParser /\ MainRegistered

SpecCaps == InitCaps /\ [][RunNext]_vars

----------------------------------------------------------------------------
(* The life of the manager: runs, modules unregistered between them, and   *)
(* the destructor                                                          *)

\* the modules the caller unregisters
Unregistered == {"cgroups", "mounts"}

\* SandboxManager::unregisterModule: modules_.erase(it) destroys the module;
\* executionOrder_ keeps what it holds
UnregisterModule(m) ==
    /\ pc = "idle"
    /\ m \in modules_
    /\ modules_' = modules_ \ {m}
    /\ UNCHANGED <<config, json_, parsed, logger, declared, cgroupWrites,
                   activeMounts_, pipeBuf, state_, executionOrder_, childPid_,
                   pc, idx, result, returned, runs, moduleState, seccomp,
                   cgroupDir, cgroupProcs, parentLog, child, nextPid, signals,
                   stopVars>>

\* cleanupModules reaching a pointer of executionOrder_ whose module was
\* destroyed: module->cleanup() is a call through a dangling pointer.  The
\* memory may still hold the object (the loop goes on as if it were alive)
\* or not (the process dies in the call)
DanglingOutcomes == {"intact", "crash"}

\* the part of seq up to and including its first module outside registered
UpToFirstDangling(seq, registered) ==
    LET bad == {i \in 1..Len(seq) : seq[i] \notin registered}
    IN IF bad = {} THEN seq
       ELSE SubSeq(seq, 1, CHOOSE i \in bad : \A j \in bad : i <= j)

\* ~SandboxManager: stop(1000), which returns at once as there is no child,
\* then cleanupModules()
Destroy ==
    /\ pc = "idle" /\ stopPc = "idle" /\ childPid_ = -1
    /\ \E outcomeOf \in CleanupChoices,
          dangling \in (IF Range(executionOrder_) \subseteq modules_
                        THEN {"intact"} ELSE DanglingOutcomes) :
         LET seq == IF dangling = "intact"
                    THEN CleanupSequence(executionOrder_)
                    ELSE UpToFirstDangling(CleanupSequence(executionOrder_),
                                           modules_)
             st == cleanupLoop(seq, outcomeOf,
                               [ log |-> parentLog, dir |-> cgroupDir,
                                 procs |-> cgroupProcs, seccomp |-> seccomp,
                                 moduleState |-> moduleState ])
         IN /\ parentLog' = st.log
            /\ cgroupDir' = st.dir
            /\ cgroupProcs' = st.procs
            /\ seccomp' = st.seccomp
            /\ moduleState' = st.moduleState
            /\ pc' = IF dangling = "intact" THEN "destroyed" ELSE "crashed"
    /\ activeMounts_' = <<>>
    /\ executionOrder_' = <<>>
    /\ UNCHANGED <<config, json_, parsed, logger, declared, cgroupWrites,
                   pipeBuf, modules_, state_, childPid_, idx, result,
                   returned, runs, child, nextPid, signals, stopVars>>

LifetimeNext ==
    \/ RunNext
    \/ \E m \in Unregistered : UnregisterModule(m)
    \/ Destroy

\* the default configuration, and one whose child keeps CAP_SYS_ADMIN
LifetimeConfigs ==
    { DefaultConfig, [DefaultConfig EXCEPT !.capabilities = <<"CAP_SYS_ADMIN">>] }

InitLifetime == config \in LifetimeConfigs /\ NoParser /\ MainRegistered

SpecLifetime == InitLifetime /\ [][LifetimeNext]_vars

----------------------------------------------------------------------------
(* The logger taken alone: one thread calls Logger::initialize, the others *)
(* log                                                                     *)

managerVars == <<config, json_, parsed, declared, cgroupWrites, activeMounts_,
                 pipeBuf, modules_, state_, executionOrder_, childPid_, pc,
                 idx, result, returned, runs, moduleState, seccomp, cgroupDir,
                 cgroupProcs, parentLog, child, nextPid, signals, stopVars>>

\* initialize up to the call of info(): the lock_guard on mutex_ is taken,
\* the settings are stored, the log file is opened (opens: whether it could
\* be), initialized_ is set
LoggerInitialize ==
    /\ logger.pc = "call" /\ logger.mutex_ = "free"
    /\ \E opens \in (IF logger.logFile = "" THEN {FALSE} ELSE BOOLEAN) :
         logger' = [logger EXCEPT
                      !.pc = "info",
                      !.mutex_ = "initialize",
                      !.minLevel_ = logger.level,
                      !.output_ = IF logger.logFile # "" /\ ~opens
                                  THEN "stdout" ELSE logger.output,
                      !.initialized_ = TRUE]
    /\ UNCHANGED managerVars

\* std::lock_guard on a std::mutex the calling thread already owns: the
\* behaviour is undefined; the thread sleeps for ever, or lock() throws
\* std::system_error (resource_deadlock_would_occur)
RelockOutcomes == {"blocked", "system_error"}

\* info("Logger initialized with level: ..."), called with mutex_ held:
\* log() returns early for a message under minLevel_, else locks mutex_
LoggerInfo ==
    /\ logger.pc = "info"
    /\ IF LogLevelValue("INFO") < LogLevelValue(logger.minLevel_)
       THEN logger' = [logger EXCEPT !.pc = "unlock"]
       ELSE \E o \in RelockOutcomes :
              logger' = [logger EXCEPT !.pc = o]
    /\ UNCHANGED managerVars

\* the end of initialize: the lock_guard releases mutex_
LoggerReturn ==
    /\ logger.pc = "unlock"
    /\ logger' = [logger EXCEPT !.pc = "returned", !.mutex_ = "free"]
    /\ UNCHANGED managerVars

\* Logger::log called by another thread
LoggerLog ==
    /\ Len(logger.lines) < MaxLogLines
    /\ \E level \in Range(LogLevels) :
         IF ~logger.initialized_
         THEN logger' = [logger EXCEPT
                           !.lines = Append(@, [level |-> "UNINITIALIZED",
                                                to |-> "stderr"])]
         ELSE /\ LogLevelValue(level) >= LogLevelValue(logger.minLevel_)
              /\ logger.mutex_ = "free"
              /\ logger' = [logger EXCEPT
                              !.lines = Append(@, [level |-> level,
                                                   to |-> logger.output_])]
    /\ UNCHANGED managerVars

LoggerNext == LoggerInitialize \/ LoggerInfo \/ LoggerReturn \/ LoggerLog

\* the arguments main() can pass to initialize
InitLogger ==
    /\ \E level \in Range(LogLevels), output \in {"stdout", "stderr", "file"},
          logFile \in {"", "/var/log/sandbox/sandbox.log"} :
         logger = NewLogger(level, output, logFile)
    /\ config = DefaultConfig
    /\ json_ = NoJson /\ parsed = NotParsed
    /\ MainRegistered

SpecLogger == InitLogger /\ [][LoggerNext]_vars

----------------------------------------------------------------------------
(* The configuration parser taken alone: a parser constructed from a JSON  *)
(* document, then parse()                                                  *)

\* the key contained with one of the values, or not contained
Opt(values, unset) == {Absent(unset)} \cup {Key(TRUE, v) : v \in values}

\* the sections a document with these keys holds, those of its keys and any
\* of the two required ones left empty
SectionsOf(j) ==
    (IF j.name.present \/ j.command.present THEN {"sandbox"} ELSE {})
    \cup (IF j.memory_mb.present \/ j.max_pids.present THEN {"resources"} ELSE {})
    \cup (IF j.namespaces.present THEN {"isolation"} ELSE {})
    \cup (IF j.capabilities.present THEN {"security"} ELSE {})
    \cup (IF j.bind_mounts.present THEN {"mounts"} ELSE {})

\* the documents of the parser tests and their neighbours
JsonDocuments ==
    { [j EXCEPT !.sections = SectionsOf(j) \cup empty] :
        j \in [ sections     : {{}},
                name         : Opt({"custom-sandbox"}, ""),
                command      : Opt({<<>>, <<"/bin/bash">>, <<"/bin/echo", "hello">>}, <<>>),
                memory_mb    : Opt({2048}, 0),
                max_pids     : Opt({10}, 0),
                namespaces   : Opt({<<>>, <<"pid", "mount">>}, <<>>),
                capabilities : Opt({<<"CAP_NET_BIND_SERVICE", "CAP_SYS_TIME">>}, <<>>),
                bind_mounts  : Opt({ << [source |-> "/tmp", target |-> "/tmp",
                                        read_only |-> FALSE],
                                       [source |-> "/data", target |-> "/data",
                                        read_only |-> TRUE] >> }, <<>>) ],
        empty \in SUBSET {"sandbox", "resources"} }

InitParse ==
    /\ json_ \in JsonDocuments
    /\ parsed = NotParsed
    /\ logger = NewLogger("INFO", "stdout", "")
    /\ config = DefaultConfig
    /\ MainRegistered

\* auto config = parser.parse()
Parse ==
    /\ ~parsed.done
    /\ parsed' = parse(json_)
    /\ UNCHANGED <<config, json_, logger, declared, cgroupWrites, activeMounts_, pipeBuf,
                   modules_, state_, executionOrder_, childPid_, pc, idx,
                   result, returned, runs, moduleState, seccomp, cgroupDir,
                   cgroupProcs, parentLog, child, nextPid, signals, stopVars>>

SpecParse == InitParse /\ [][Parse]_vars

\* configurations whose command writes something, or nothing, with the
\* capabilities the child needs to get through its applyChild hooks or not
OutputConfigs ==
    { [DefaultConfig EXCEPT !.command = cmd, !.capabilities = caps] :
        cmd \in { <<"/bin/bash">>, <<"/bin/echo", "hello">>,
                  <<"/bin/sh", "-c", "echo out; echo err >&2">>,
                  <<"/bin/sh", "-c", "echo note >&4">>,
                  <<"/bin/sh", "-c", "seq 1 100000 >&4">>,
                  <<"/no/such/file">> },
        caps \in {<<>>, <<"CAP_SYS_ADMIN">>} }

InitOutput == config \in OutputConfigs /\ NoParser /\ MainRegistered

SpecOutput == InitOutput /\ [][RunNext]_vars

----------------------------------------------------------------------------
(* The dependency resolution taken alone: a manager holding any of the     *)
(* user-written modules, each declaring any dependencies, starts a run.    *)

\* getDependencies() returns at most this many names
MaxDeps == 2

DepLists ==
    {d \in UNION {[1..k -> PluginModules] : k \in 0..MaxDeps} :
        \A i, j \in 1..Len(d) : d[i] = d[j] => i = j}

InitResolve ==
    /\ config = DefaultConfig
    /\ NoParser
    /\ modules_ \in SUBSET PluginModules
    /\ \E deps \in [PluginModules -> DepLists] :
          declared = [m \in Range(NamesSorted) |->
                        IF m \in PluginModules THEN deps[m]
                        ELSE getDependencies(m)]
    /\ Constructed

SpecResolve == InitResolve /\ [][RunStart]_vars

----------------------------------------------------------------------------
(* Reading the child's trace *)

\* the child process exists (running or not yet reaped), so its trace is kept
ChildAlive == child.state \in {"running", "zombie"}

\* the modules whose applyChild the child has entered, in order
AppliedHooks(ch) ==
    LET marks == SelectSeq(ch.ops, LAMBDA o : o.op = "applyChild")
    IN [i \in 1..Len(marks) |-> marks[i].by]

IsPrefix(s, t) == Len(s) <= Len(t) /\ \A i \in 1..Len(s) : s[i] = t[i]

\* positions of the child's trace at which the seccomp filter got installed
SeccompInstalls(ch) ==
    {i \in 1..Len(ch.ops) : ch.ops[i].op = "prctl_seccomp" /\ ch.ops[i].ok}

----------------------------------------------------------------------------
(* Ordering in the child *)

SpecifiedChildOrder == <<"namespaces", "rootfs", "mounts", "seccomp", "caps">>

\* C1: with the default module set registered, the child's applyChild hooks of
\* Namespaces, RootFS, Mounts, Seccomp and Caps run in exactly this order, and
\* the user command is executed only after all five of them.
C1_ChildHookOrder ==
    (Range(DefaultModules) \subseteq modules_ /\ ChildAlive) =>
        LET h == SelectSeq(AppliedHooks(child),
                           LAMBDA m : m \in Range(SpecifiedChildOrder))
        IN /\ IsPrefix(h, SpecifiedChildOrder)
           /\ child.executed => h = SpecifiedChildOrder

\* C2: once the child has entered its first applyChild hook or executed the
\* command, the parent has finished every prepareChild hook and the child's
\* pid is in the cgroup's cgroup.procs.
C2_PreparedBeforeApply ==
    ("cgroups" \in modules_ /\ ChildAlive /\ child.ops # <<>>) =>
        /\ child.pid \in cgroupProcs
        /\ pc # "prepare"

\* C3: whenever the child has installed a seccomp filter, PR_SET_NO_NEW_PRIVS
\* was set in the child before.
C3_NoNewPrivsBeforeSeccomp ==
    (ChildAlive /\ SeccompInstalls(child) # {}) => child.noNewPrivs

\* operations of the child that set up its filesystem
FilesystemOps == {"mount", "pivot_root", "umount", "bind_mount", "remount_ro"}

\* C4: in the child, every filesystem-setup operation (rootfs bind mount,
\* pivot_root, the /proc, /sys and /dev mounts, every configured bind mount)
\* comes strictly before the installation of the seccomp filter, and the user
\* command is executed strictly after it.
C4_SeccompAfterFilesystem ==
    \A i \in SeccompInstalls(child) : \A j \in 1..Len(child.ops) :
        /\ child.ops[j].op \in FilesystemOps => j < i
        /\ child.ops[j].op = "execute" => j > i

\* a child that pivoted its root, bind-mounted both configured targets,
\* installed the filter and then started the command
C4_Witness ==
    /\ ChildAlive /\ child.executed
    /\ SeccompInstalls(child) # {}
    /\ \E j \in 1..Len(child.ops) :
          child.ops[j].op = "pivot_root" /\ child.ops[j].ok
    /\ \E j \in 1..Len(child.ops) :
          child.ops[j].op = "bind_mount" /\ child.ops[j].arg = "/data"
                                        /\ child.ops[j].ok

----------------------------------------------------------------------------
(* Failures in the parent before the fork *)

\* positions of the parent's log holding a failed call of the hook
FailedCalls(hook) ==
    {i \in 1..Len(parentLog) : parentLog[i].hook = hook /\ ~parentLog[i].ok}

Calls(hook) == {i \in 1..Len(parentLog) : parentLog[i].hook = hook}

\* the modules of the calls of the hook in the parent's log, in order
CalledInOrder(hook) ==
    LET calls == SelectSeq(parentLog, LAMBDA e : e.hook = hook)
    IN [i \in 1..Len(calls) |-> calls[i].module]

\* the modules whose initialize succeeded in this run, in order
InitializedInOrder ==
    LET calls == SelectSeq(parentLog, LAMBDA e : e.hook = "initialize" /\ e.ok)
    IN [i \in 1..Len(calls) |-> calls[i].module]

\* C5: after a failed initialize the run invokes no further hook of any
\* module, forks no child and returns with success = false; and when a child
\* was forked, every registered module's initialize had succeeded, and no
\* other hook had been invoked, before the fork.
C5_InitializeFailureAborts ==
    /\ \A i \in FailedCalls("initialize") :
          /\ i = Len(parentLog)
          /\ child = NoChild /\ childPid_ = -1
          /\ returned /\ ~result.success /\ result.childPid = -1
    /\ child # NoChild =>
          /\ modules_ \subseteq Range(InitializedInOrder)
          /\ \A j \in Calls("initialize") :
                \A i \in 1..(j - 1) : parentLog[i].hook = "initialize"

\* run() returned after an initialize failed that was not the first one
C5_Witness ==
    /\ returned
    /\ \E i \in FailedCalls("initialize") : i > 2
    /\ Logged("initialize", "cgroups", TRUE) \in Range(parentLog)

\* run() has returned without a fork having succeeded
AbortedBeforeFork == returned /\ state_ = "ERROR" /\ result.childPid = -1

\* C6: when run() aborts at or before the fork (an initialize failed, the
\* pipe could not be created, or fork failed), then on return the modules
\* that were initialized have had their cleanup invoked in reverse order and
\* the cgroup directory the run created is gone.
C6_AbortCleansUp ==
    AbortedBeforeFork =>
        /\ CalledInOrder("cleanup") = CleanupSequence(InitializedInOrder)
        /\ "cgroups" \in Range(CalledInOrder("initialize")) => ~cgroupDir

----------------------------------------------------------------------------
(* The cgroup directory and the engine's state *)

\* C7: once a run that created the cgroup directory is STOPPED and the
\* removal call succeeded, the directory does not exist; and, no removal
\* having failed, the directory exists only while the engine is between
\* INITIALIZING and the end of cleanup.
C7_CgroupDirLifetime ==
    /\ (state_ = "STOPPED" /\ Logged("removeCgroup", "cgroups", TRUE) \in Range(parentLog))
          => ~cgroupDir
    /\ (cgroupDir /\ FailedCalls("removeCgroup") = {})
          => state_ \in {"INITIALIZING", "PREPARING", "RUNNING", "STOPPING"}

SandboxStateOrder == <<"CREATED", "INITIALIZING", "PREPARING", "RUNNING",
                       "STOPPING", "STOPPED">>

StateRank(st) == CHOOSE i \in 1..Len(SandboxStateOrder) : SandboxStateOrder[i] = st

\* C8: every change of the SandboxState either moves forward along CREATED,
\* INITIALIZING, PREPARING, RUNNING, STOPPING, STOPPED or enters ERROR.
C8_StateOnlyAdvances ==
    [][ state_' # state_ =>
           \/ state_' = "ERROR"
           \/ /\ state_ # "ERROR"
              /\ StateRank(state_') > StateRank(state_) ]_vars

----------------------------------------------------------------------------
(* Failures after the fork *)

\* C9: when an applyChild fails, the child exits with status 1 without
\* entering a later hook or the command, the parent reaps it and invokes
\* every module's cleanup in reverse order, and run() ends in ERROR with
\* success = false.
C9_ApplyFailureEndsInError ==
    /\ child.applyFailed =>
          child.state # "running" /\ child.status = Exited(1) /\ ~child.executed
    /\ (returned /\ child.applyFailed) =>
          /\ child.state = "reaped"
          /\ CalledInOrder("cleanup") = CleanupSequence(resolveDependencies(modules_))
          /\ ~result.success
          /\ state_ = "ERROR"

\* C10: when a prepareChild fails, run() sends SIGKILL to the child, reaps
\* it, cleans up and returns success = false, whatever the child did before
\* the signal arrived.
C10_PrepareFailureFails ==
    (returned /\ FailedCalls("prepareChild") # {}) =>
        /\ \E k \in 1..Len(signals) :
              signals[k] = [sig |-> SIGKILL, pid |-> child.pid, by |-> "run",
                            target |-> signals[k].target]
        /\ child.state = "reaped"
        /\ CalledInOrder("cleanup") = CleanupSequence(resolveDependencies(modules_))
        /\ ~result.success

----------------------------------------------------------------------------
(* Cleanup *)

Reversed(s) == [i \in 1..Len(s) |-> s[Len(s) + 1 - i]]

\* C11: cleanupModules invokes the cleanup of every module of the execution
\* order exactly once, in the reverse of the order in which the modules were
\* initialized, also when one of the cleanups returns false.
C11_CleanupReverseAll ==
    LET cleaned == CalledInOrder("cleanup") IN
    /\ cleaned # <<>> => cleaned = Reversed(InitializedInOrder)
    /\ (returned /\ state_ = "STOPPED") =>
          /\ Len(cleaned) = Cardinality(modules_)
          /\ Range(cleaned) = modules_

\* a run in which the cleanup of the user module failed and the modules
\* after it in the reverse order were cleaned up all the same
C11_Witness ==
    /\ returned /\ state_ = "STOPPED"
    /\ Logged("cleanup", "my-module", FALSE) \in Range(parentLog)
    /\ \E i, j \in Calls("cleanup") :
          /\ i < j
          /\ parentLog[i].module = "my-module"
          /\ parentLog[j].module = "cgroups"

----------------------------------------------------------------------------
(* The result of a run *)

\* C12: for a child reaped by run(), a normal exit gives exitCode = the exit
\* status and success exactly when it is 0; death by signal s gives
\* exitCode = -s, success = false and an error message naming s.
C12_StatusInterpreted ==
    child.reaper = "run" =>
        /\ child.status.kind = "exit" =>
              /\ result.exitCode = child.status.code
              /\ result.success = (child.status.code = 0)
        /\ child.status.kind = "signal" =>
              /\ result.exitCode = 0 - child.status.code
              /\ ~result.success
              /\ result.errorMessage
                    = "Killed by signal: " \o ToString(child.status.code)

\* run() reaped a child that died from the SIGTERM of a stop()
C12_Witness ==
    /\ child.reaper = "run"
    /\ child.status = Signaled(SIGTERM)
    /\ result.exitCode = 0 - SIGTERM

----------------------------------------------------------------------------
(* stop() *)

\* a stop() of this run has signalled the child, has returned, and the child
\* is terminated and reaped
StoppedAndReaped ==
    /\ stopPc = "idle"
    /\ child.state = "reaped"
    /\ \E k \in 1..Len(signals) : signals[k].by = "stop"

\* the step sends a signal from stop()
StopSignals ==
    /\ Len(signals') > Len(signals)
    /\ signals'[Len(signals')].by = "stop"

\* C13: once a stop() has returned with the child terminated and reaped, a
\* further stop() sends no signal; a stop() without a child changes nothing.
C13_StopIdempotent ==
    [][ /\ StoppedAndReaped => ~StopSignals
        /\ (stopPc = "idle" /\ childPid_ < 0) => ~StopSignals
      ]_vars

\* the signal the step sends
LastSent == signals'[Len(signals')]

\* C14: stop(t) sends SIGTERM first, polls at most t / 100 times, and sends
\* SIGKILL only when the polls are used up and the child has still not
\* exited.
C14_StopEscalation ==
    [][ /\ (stopPc = "idle" /\ stopPc' = "poll") =>
              /\ StopSignals /\ LastSent.sig = SIGTERM
              /\ \E t \in TimeoutsMs : stopLeft' = t \div 100
        /\ (stopPc = "poll" /\ stopPc' = "poll") =>
              stopLeft' \in {stopLeft, stopLeft - 1}
        /\ (StopSignals /\ LastSent.sig = SIGKILL) =>
              /\ stopPc = "poll" /\ stopLeft = 0
              /\ child.state = "running"
              /\ LastSent.pid = child.pid
      ]_vars

\* C15: when a stop() acts on the child of a run in progress, the child is
\* reaped once and the result the run returns reports how the child ended:
\* for a child that died from signal s, exitCode = -s and success = false.
C15_StopDuringRunResult ==
    (returned /\ state_ = "STOPPED"
       /\ \E k \in 1..Len(signals) : signals[k].by = "stop") =>
        /\ child.state = "reaped"
        /\ child.status.kind = "signal" =>
              /\ result.exitCode = 0 - child.status.code
              /\ ~result.success

\* the place of a module in the resolved order
Pos(m) == CHOOSE i \in 1..Len(executionOrder_) : executionOrder_[i] = m

\* registered module m declares the registered module d as a dependency
DependsOn(m, d) == m \in modules_ /\ d \in modules_ /\ d \in Range(declared[m])

RECURSIVE ReachesIn(_, _, _)
ReachesIn(m, d, k) ==
    /\ k > 0
    /\ \/ DependsOn(m, d)
       \/ \E x \in modules_ : DependsOn(m, x) /\ ReachesIn(x, d, k - 1)

Reaches(m, d) == ReachesIn(m, d, Cardinality(modules_))

Acyclic == \A m \in modules_ : ~Reaches(m, m)

Resolved == pc = "init" /\ idx = 1 /\ parentLog = <<>>

\* C16: when the dependencies declared among the registered modules have no
\* cycle, the resolved order holds every registered module once, each after
\* every registered module it depends on, and the cleanup sequence holds
\* each before every module it depends on.
C16_LinearExtension ==
    (Resolved /\ Acyclic) =>
        /\ Len(executionOrder_) = Cardinality(modules_)
        /\ Range(executionOrder_) = modules_
        /\ \A m, d \in modules_ : DependsOn(m, d) =>
              /\ Pos(d) < Pos(m)
              /\ \E i, j \in 1..Len(executionOrder_) :
                    /\ i < j
                    /\ CleanupSequence(executionOrder_)[i] = m
                    /\ CleanupSequence(executionOrder_)[j] = d

\* a resolved chain that runs against the iteration order of modules_
C16_Witness ==
    /\ Resolved /\ Acyclic
    /\ modules_ = PluginModules
    /\ DependsOn("plugin-a", "plugin-c") /\ DependsOn("plugin-c", "plugin-b")
    /\ executionOrder_ = <<"plugin-b", "plugin-c", "plugin-a">>

\* C17: two default modules that no dependency orders appear in the
\* execution order in the order in which registerDefaultModules registered
\* them.
C17_RegistrationOrderKept ==
    \A i, j \in 1..Len(DefaultModules) :
        LET a == DefaultModules[i]
            b == DefaultModules[j]
        IN (/\ i < j
            /\ {a, b} \subseteq Range(executionOrder_)
            /\ ~Reaches(a, b) /\ ~Reaches(b, a)) => Pos(a) < Pos(b)

\* what main() returns after manager.run(): the exitCode of the result
mainReturns == result.exitCode

\* C18: the command-line program returns the child's exit code when the
\* child exited, minus the signal number when a signal killed it, and 1
\* when the initialization of the modules failed.  (A configuration file
\* that is not valid ends main() before a manager exists.)
C18_ExitCode ==
    returned =>
        /\ (child.reaper = "run" /\ child.status.kind = "exit") =>
              mainReturns = child.status.code
        /\ (child.reaper = "run" /\ child.status.kind = "signal") =>
              mainReturns = 0 - child.status.code
        /\ FailedCalls("initialize") # {} => mainReturns = 1

\* Seccomp::initialize has returned true in the run in progress
SeccompInitialized == Logged("initialize", "seccomp", TRUE) \in Range(parentLog)

\* C19: with the policy selector "off", the Seccomp module is disabled once
\* initialized (isEnabled() is false) and its applyChild installs no filter
\* in the child.
C19_OffDisables ==
    (config.seccomp_policy = "off" /\ SeccompInitialized) =>
        /\ ~seccomp.enabled
        /\ SeccompInstalls(child) = {}

\* C20: the filter installed in the child is the one built from the custom
\* profile when a profile path is configured, and the built-in allow-list
\* when none is.
C20_ProfileFilter ==
    \A i \in SeccompInstalls(child) :
        child.ops[i].arg = IF config.seccomp_profile_path # ""
                           THEN "profile" ELSE "builtin"

\* the setCgroupValue calls of the current run that name file f
WritesTo(f) == SelectSeq(cgroupWrites, LAMBDA w : w.file = f)

\* Cgroups::initialize has returned true in the run in progress
CgroupsInitialized == Logged("initialize", "cgroups", TRUE) \in Range(parentLog)

\* C26: once Cgroups.initialize succeeded, memory.swap.max was written, with
\* the value 0, exactly when enable_swap is false.
C26_SwapPinned ==
    CgroupsInitialized =>
        IF config.enable_swap THEN WritesTo("memory.swap.max") = <<>>
        ELSE /\ Len(WritesTo("memory.swap.max")) = 1
             /\ WritesTo("memory.swap.max")[1].value = "0"

\* the decimal numeral of x * 1000, for x > 0
TimesThousand(x) == ToString(x) \o "000"

\* C27: once Cgroups.initialize succeeded, memory.max holds
\* memory_mb * 1048576, cpu.max holds "<cpu_quota_percent * 1000> 100000",
\* and pids.max holds max_pids when max_pids > 0 and is not written when
\* max_pids is 0.
C27_LimitValues ==
    CgroupsInitialized =>
        /\ Len(WritesTo("memory.max")) = 1
        /\ WritesTo("memory.max")[1].value = ToString(config.memory_mb * 1048576)
        /\ Len(WritesTo("cpu.max")) = 1
        /\ WritesTo("cpu.max")[1].value =
              TimesThousand(config.cpu_quota_percent) \o " 100000"
        /\ IF config.max_pids > 0
           THEN /\ Len(WritesTo("pids.max")) = 1
                /\ WritesTo("pids.max")[1].value = ToString(config.max_pids)
           ELSE WritesTo("pids.max") = <<>>

\* the operations the child's Namespaces::applyChild has issued
NamespacesOps ==
    SelectSeq(child.ops, LAMBDA o : o.by = "namespaces" /\ o.op # "applyChild")

IdWrites ==
    SelectSeq(NamespacesOps, LAMBDA o : o.op \in {"write_setgroups", "write_uid_map",
                                                  "write_gid_map"})

\* the id-map writes of the specification, in its order
SpecifiedIdWrites ==
    << [op |-> "write_setgroups", arg |-> "deny"],
       [op |-> "write_uid_map",
        arg |-> ToString(config.uid_map.container) \o " " \o
                ToString(config.uid_map.host) \o " " \o ToString(config.uid_map.count)],
       [op |-> "write_gid_map",
        arg |-> ToString(config.gid_map.container) \o " " \o
                ToString(config.gid_map.host) \o " " \o ToString(config.gid_map.count)] >>

LastOp == child.ops[Len(child.ops)]

RootFSOps ==
    SelectSeq(child.ops, LAMBDA o : /\ o.by = "rootfs" /\ o.op # "applyChild"
                                    /\ o.arg # "required_dirs")

\* the operations of the specification, in its order
SpecifiedRootFSOps ==
    << <<"mount", "rootfs_bind">>, <<"mount", "make_private">>,
       <<"mkdir", "oldroot">>, <<"pivot_root", "">>, <<"chdir", "/">>,
       <<"umount", "oldroot">>, <<"mount", "/proc">>, <<"mount", "/sys">>,
       <<"mount", "/dev">> >>

\* C22: the operations of RootFS.apply_child are, in this order: the
\* recursive bind mount of the root onto itself, marking it private,
\* creating .oldroot, pivot_root, chdir("/"), detaching the old root, and
\* then the mounts of /proc, /sys and /dev.
C22_RootFSOrder ==
    ChildAlive =>
        /\ Len(RootFSOps) <= Len(SpecifiedRootFSOps)
        /\ \A i \in 1..Len(RootFSOps) :
              <<RootFSOps[i].op, RootFSOps[i].arg>> = SpecifiedRootFSOps[i]

\* C23: the child's RootFS hook mounts and pivots only when the mount
\* namespace is among the requested namespaces.
C23_RootFSOnlyInMountNamespace ==
    (ChildAlive /\ "mount" \notin config.namespaces) =>
        \A i \in 1..Len(child.ops) :
            child.ops[i].by = "rootfs" =>
                child.ops[i].op \notin {"mount", "pivot_root", "umount"}

\* C24: the child's Namespaces hook mounts nothing, and /proc and /sys are
\* each mounted at most once in a run.
C24_NamespacesMountsNothing ==
    ChildAlive =>
        /\ \A i \in 1..Len(NamespacesOps) : NamespacesOps[i].op # "mount"
        /\ \A t \in {"/proc", "/sys"} :
              Cardinality({i \in 1..Len(child.ops) :
                             /\ child.ops[i].op = "mount" /\ child.ops[i].arg = t
                             /\ child.ops[i].ok}) <= 1

\* the child's Caps::applyChild has returned true
CapsApplied ==
    \E i \in 1..Len(child.ops) :
        /\ child.ops[i].by = "caps" /\ child.ops[i].op = "cap_set_proc"
        /\ child.ops[i].ok

\* C29: after Caps.apply_child succeeded, the child's bounding set holds no
\* capability outside the configured kept list.
C29_BoundingSetShrunk ==
    (ChildAlive /\ CapsApplied) => child.bounding \subseteq Range(config.capabilities)

\* the unmount calls in a log of the parent, as <<target, flags>>
UnmountsIn(log) ==
    LET u == SelectSeq(log, LAMBDA e : e.hook = "unmount")
    IN [i \in 1..Len(u) |-> <<u[i].target, u[i].flags>>]

\* C25: the cleanup the engine runs after the child is gone unmounts every
\* bind mount the child applied, last applied first, each with MNT_DETACH.
C25_MountsUndone ==
    [][ (pc = "cleanup" /\ pc' = "idle") =>
            UnmountsIn(parentLog') =
                [i \in 1..Len(child.mounted) |->
                    <<child.mounted[Len(child.mounted) + 1 - i], "MNT_DETACH">>]
      ]_vars

----------------------------------------------------------------------------
(* Removal of the cgroup directory *)

\* the entries i-n+1 .. i of the parent's log are n failed removals
FailedRemovalsEndingAt(i, n) ==
    /\ i >= n
    /\ \A k \in 0..(n - 1) :
           parentLog[i - k] = Logged("removeCgroup", "cgroups", FALSE)

\* C28: a failed removal of the cgroup directory in Cgroups::cleanup is
\* followed by another attempt, unless it was the fifth failed attempt in a
\* row; and nothing is attempted after an attempt that succeeded.
C28_RemovalRetried ==
    \A i \in Calls("removeCgroup") :
        IF parentLog[i].ok
        THEN i < Len(parentLog) => parentLog[i + 1].hook # "removeCgroup"
        ELSE \/ i < Len(parentLog) /\ parentLog[i + 1].hook = "removeCgroup"
             \/ FailedRemovalsEndingAt(i, 5)

----------------------------------------------------------------------------
(* The captured output *)

\* the run() that forked the child has reaped it and read the pipe
OutputRead ==
    /\ child.state = "reaped" /\ child.reaper = "run"
    /\ result.childPid = child.pid
    /\ pc \in {"cleanup", "idle"}

\* C30: from the moment the child exists its descriptors 1 and 2 refer to the
\* write end of the pipe, and once run() has reaped the child and drained the
\* pipe, result.stdout is exactly what the child wrote to them.
C30_OutputCaptured ==
    /\ child.state \in {"running", "zombie"} => child.stdoutTo = "pipe"
    /\ OutputRead => result.stdout = child.wrote

----------------------------------------------------------------------------
(* Waiting for the child and draining the pipe *)

\* C31: the parent and the child never block each other: there is no state
\* in which run() sleeps in waitpid while the child it waits for sleeps in a
\* write to the pipe that only run() would empty.
C31_NeitherBlocksTheOther ==
    ~ ( /\ pc = "wait"
        /\ child.state = "running" /\ child.executed
        /\ WriteBlocks(child.toPipe, pipeBuf) )

----------------------------------------------------------------------------
(* The command *)

\* positions of the child's trace at which it called execve
Execs(ch) == {i \in 1..Len(ch.ops) : ch.ops[i].op = "execute"}

----------------------------------------------------------------------------
(* Dependency cycles *)

\* the cycle warnings resolveDependencies logged for the registered modules
CycleWarnings == resolveLoop(modules_).warned

\* C33: whatever the registered modules declare (cycles, names that are not
\* registered), the resolved order holds every registered module exactly
\* once, and the module at which a cycle was detected comes after the other
\* modules of that cycle.
C33_CycleBroken ==
    Resolved =>
        /\ Len(executionOrder_) = Cardinality(modules_)
        /\ Range(executionOrder_) = modules_
        /\ \A i \in 1..Len(CycleWarnings) :
              \A m \in CycleWarnings[i].cycle \ {CycleWarnings[i].name} :
                  Pos(m) < Pos(CycleWarnings[i].name)

\* plugin-a and plugin-b depend on each other, plugin-a also on a module
\* that is not registered
C33_Witness ==
    /\ Resolved
    /\ modules_ = {"plugin-a", "plugin-b"}
    /\ declared["plugin-a"] = <<"plugin-b", "plugin-c">>
    /\ declared["plugin-b"] = <<"plugin-a">>
    /\ CycleWarnings = << [name |-> "plugin-a",
                           cycle |-> {"plugin-a", "plugin-b"}] >>
    /\ executionOrder_ = <<"plugin-b", "plugin-a">>

----------------------------------------------------------------------------
(* The state of a module *)

\* the place of a state in enum class ModuleState
ModuleStateRank(st) ==
    CASE st = "UNINITIALIZED" -> 0
      [] st = "INITIALIZED"   -> 1
      [] st = "RUNNING"       -> 2
      [] st = "STOPPING"      -> 3
      [] st = "STOPPED"       -> 4
      [] st = "ERROR"         -> 5

\* C34: no hook call of the engine, in a first run or a later one, moves the
\* state of a module backwards along UNINITIALIZED, INITIALIZED, RUNNING,
\* STOPPED, or out of ERROR.
C34_ModuleStateForward ==
    [][ \A m \in ModuleNames :
            ModuleStateRank(moduleState'[m]) >= ModuleStateRank(moduleState[m])
      ]_vars

----------------------------------------------------------------------------
(* The configuration parser *)

\* the value parse() is to give a key: the document's when it holds the
\* key, the default otherwise
Expected(key, default) == IF key.present THEN key.value ELSE default

\* C35: parsing a document that sets only some of the keys succeeds; every
\* key it holds has the value given and every other key its default.
C35_PartialDocumentParsed ==
    parsed.done =>
        /\ parsed.threw = ""
        /\ parsed.config =
             [ name         |-> Expected(json_.name, createDefaultConfig.name),
               command      |-> Expected(json_.command, createDefaultConfig.command),
               memory_mb    |-> Expected(json_.memory_mb, createDefaultConfig.memory_mb),
               max_pids     |-> Expected(json_.max_pids, createDefaultConfig.max_pids),
               namespaces   |-> Expected(json_.namespaces, createDefaultConfig.namespaces),
               capabilities |-> Expected(json_.capabilities,
                                         createDefaultConfig.capabilities),
               bind_mounts  |-> Expected(json_.bind_mounts,
                                         createDefaultConfig.bind_mounts) ]

\* C36: after a parse that succeeded, each list-valued key the document
\* holds (command, namespaces, capabilities, bind_mounts) is the document's
\* list, element for element, with no default entry kept.
C36_ListsReplaced ==
    (parsed.done /\ parsed.threw = "") =>
        /\ json_.command.present => parsed.config.command = json_.command.value
        /\ json_.namespaces.present =>
              parsed.config.namespaces = json_.namespaces.value
        /\ json_.capabilities.present =>
              parsed.config.capabilities = json_.capabilities.value
        /\ json_.bind_mounts.present =>
              parsed.config.bind_mounts = json_.bind_mounts.value

----------------------------------------------------------------------------
(* The logger *)

\* C37: a call of Logger::initialize is never stuck: whatever the level and
\* the output, the thread that holds mutex_ in initialize does not end up
\* waiting for, or failing on, that same mutex when it logs "Logger
\* initialized".
C37_InitializeReturns ==
    logger.pc \in {"call", "info", "unlock", "returned"}

----------------------------------------------------------------------------
(* Hooks and the registered modules *)

\* C38: every hook call the engine makes targets a module that is
\* registered when the call is made, also after unregisterModule and in the
\* cleanup the destructor runs.
C38_HooksOnRegisteredModules ==
    [][ \A i \in (Len(parentLog) + 1)..Len(parentLog') :
            parentLog'[i].module \in modules_
      ]_vars

----------------------------------------------------------------------------
(* stop() racing with run() *)

\* C39: stop() signals only a child that is forked and not yet reaped: no
\* step of stop() sends SIGTERM or SIGKILL to the stored pid once the
\* waitpid of run() has reaped the child.
C39_NoSignalAfterReap ==
    [][ StopSignals => ~(child.state = "reaped" /\ child.reaper = "run") ]_vars

----------------------------------------------------------------------------
(* The capability array of Caps::applyChild *)

\* C40: whatever the configured capability list, Caps::applyChild stores at
\* most 64 entries in capList: the count of accepted names is in 0..64.
C40_CapListWithinCapacity == child.capCount \in 0..CapListSize

====
